---- MODULE Spec2Model ----
\* Model of the bounded-concurrency breadth-first catalog crawlers
\* CatalogCrawler.crawl (main.py) and FullCatalogCrawler.crawl
\* (catalog_to_json.py), and of normalize_url, which both share.
EXTENDS Integers, Sequences, FiniteSets, TLC

VARIABLES
    variant,      \* "main": CatalogCrawler, "full": FullCatalogCrawler
    max_workers,  \* self.max_workers
    nodes,        \* every CatalogNode constructed so far; nodes[1] is root
    queue,        \* the frontier deque, as node indices
    seen,         \* the visited set of normalized addresses
    futures,      \* the futures dict: future -> node
    results,      \* future -> outcome, for the futures that have finished
    done,         \* futures of the current drain not yet iterated over
    pc,           \* position of the control loop
    submitted,    \* history: the node of every executor.submit, in order
    pushed,       \* history: the node of every queue push, in order
    catalog,      \* what the remote site has answered, address -> outcome
    url_in,       \* argument of a stand-alone normalize_url call
    url_out,      \* its result
    twin          \* the other crawler, when it is run alongside on the
                  \* same site with the same completions; else NoTwin

vars == <<variant, max_workers, nodes, queue, seen, futures, results, done,
          pc, submitted, pushed, catalog, url_in, url_out, twin>>

\* ---------------------------------------------------------------------
\* Bounds of the model
\* ---------------------------------------------------------------------
\* largest max_workers tried
MaxWorkersBound == 2
\* longest entry list one page may parse to
MaxEntries == 2
\* total number of entries over all pages of the catalog
MaxTotalEntries == 3
\* nodes the tree may hold: one per catalog entry plus the root, for the
\* largest catalog any specification below starts from or builds
MaxNodes == MaxTotalEntries + 3
\* longest query string (in tokens) given to normalize_url on its own
MaxQueryLen == 5

\* ---------------------------------------------------------------------
\* Addresses: scheme/host/path are one opaque "base"; the query is a string
\* of tokens.  Word tokens stand for runs of unreserved characters.
\* ---------------------------------------------------------------------
Words == {"limit", "limitstart", "a"}
QueryChars == Words \cup {"&", "=", "+", "%3D"}

Url(base, query) == [base |-> base, query |-> query]

RECURSIVE SplitOn(_, _)
\* str.split(sep): the list of (possibly empty) pieces between separators
SplitOn(s, sep) ==
    IF \A i \in 1..Len(s) : s[i] # sep
    THEN <<s>>
    ELSE LET i == CHOOSE j \in 1..Len(s) :
                      s[j] = sep /\ \A k \in 1..(j - 1) : s[k] # sep
         IN  <<SubSeq(s, 1, i - 1)>> \o SplitOn(SubSeq(s, i + 1, Len(s)), sep)

\* name_value.split('=', 1), with '' appended when there is no '='
SplitFirstEq(s) ==
    IF \A i \in 1..Len(s) : s[i] # "="
    THEN <<s, <<>>>>
    ELSE LET i == CHOOSE j \in 1..Len(s) :
                      s[j] = "=" /\ \A k \in 1..(j - 1) : s[k] # "="
         IN  <<SubSeq(s, 1, i - 1), SubSeq(s, i + 1, Len(s))>>

\* s.replace('+', ' ') followed by unquote(s)
UnquotePlus(s) ==
    [i \in 1..Len(s) |->
        CASE s[i] = "+"   -> " "
          [] s[i] = "%3D" -> "="
          [] OTHER        -> s[i]]

\* quote_plus(s)
QuotePlus(s) ==
    [i \in 1..Len(s) |->
        CASE s[i] = " " -> "+"
          [] s[i] = "=" -> "%3D"
          [] s[i] = "+" -> "%2B"
          [] s[i] = "&" -> "%26"
          [] OTHER      -> s[i]]

RECURSIVE PairsOf(_)
PairsOf(pieces) ==
    IF pieces = <<>> THEN <<>>
    ELSE LET nv == SplitFirstEq(Head(pieces))
         IN  (IF Head(pieces) = <<>>
              THEN <<>>
              ELSE << <<UnquotePlus(nv[1]), UnquotePlus(nv[2])>> >>)
             \o PairsOf(Tail(pieces))

\* parse_qsl(query, keep_blank_values=True)
ParseQsl(query) == IF query = <<>> THEN <<>> ELSE PairsOf(SplitOn(query, "&"))

RECURSIVE Urlencode(_)
\* mutation: the pairs are joined without a separator
UrlencodeUnseparated(pairs) ==
    IF pairs = <<>> THEN <<>>
    ELSE QuotePlus(pairs[1][1]) \o <<"=">> \o QuotePlus(pairs[1][2])
         \o Urlencode(Tail(pairs))

\* urlencode(pairs, doseq=True) for string values
Urlencode(pairs) ==
    IF pairs = <<>> THEN <<>>
    ELSE QuotePlus(pairs[1][1]) \o <<"=">> \o QuotePlus(pairs[1][2])
         \o (IF Len(pairs) > 1 THEN <<"&">> ELSE <<>>)
         \o Urlencode(Tail(pairs))

NoiseKeys == {<<"limit">>, <<"limitstart">>}

\* mutation: limitstart is not taken for a pagination key
KeepPairLimitOnly(p) == p[1] # <<"limit">>

\* if key not in {"limit", "limitstart"}
KeepPair(p) == p[1] \notin NoiseKeys

FilterPairs(pairs) == SelectSeq(pairs, KeepPair)

normalize_url(url) ==
    Url(url.base, Urlencode(FilterPairs(ParseQsl(url.query))))

\* ---------------------------------------------------------------------
\* The catalog: what the Fetcher and the Page Parser may hand to the crawl
\* ---------------------------------------------------------------------
LimitQuery == <<"limit", "=", "a">>

\* the root address carries a pagination parameter: it is fetched as it is,
\* while its identity is the address without the parameter
RootUrls == {Url("R", LimitQuery)}

\* Entry(name, url, kind) / the (name, url, kind) tuples of parse_entries
Entry(name, url, kind) == [name |-> name, url |-> url, kind |-> kind]

Entries ==
    { Entry("A",  Url("A", <<>>),       "FOLDER"),
      Entry("B",  Url("B", <<>>),       "FOLDER"),
      Entry("C",  Url("R", <<>>),       "FOLDER"),
      Entry("D",  Url("D", <<>>),       "FOLDER"),
      Entry("F",  Url("F", <<>>),       "FILE") }

Pages == UNION { [1..n -> Entries] : n \in 0..MaxEntries }

Success(entries) == [ok |-> TRUE, entries |-> entries]
Failure == [ok |-> FALSE, entries |-> <<>>]

\* what one fetch may end with: any page, or an exception
Outcomes == {Success(p) : p \in Pages} \cup {Failure}

\* ---------------------------------------------------------------------
\* Tree nodes.  nodes[i] is the i-th CatalogNode constructed; children hold
\* node indices.  main.py's CatalogNode has no kind field (all its nodes are
\* FOLDER entries); catalog_to_json.py's has no depth or has_file_children.
\* ---------------------------------------------------------------------
CatalogNode(name, url, kind, depth) ==
    [name |-> name, url |-> url, kind |-> kind, depth |-> depth,
     children |-> <<>>, has_file_children |-> FALSE]

EmptyMap == [x \in {} |-> 0]

Without(map, key) == [k \in (DOMAIN map) \ {key} |-> map[k]]

\* mutation: the slot test is off by one
CanSubmitOffByOne(q, futs, mw) == q # <<>> /\ Cardinality(DOMAIN futs) <= mw

\* while queue and len(futures) < self.max_workers
CanSubmit(q, futs, mw) == q # <<>> /\ Cardinality(DOMAIN futs) < mw

\* mutation: the visited set is never consulted
AlreadySeenNever(s, normalized) == FALSE

\* mutation: every identity is taken for visited
AlreadySeenAlways(s, normalized) == TRUE

\* if normalized in seen
AlreadySeen(s, normalized) == normalized \in s

\* mutation: the loop waits for what is in flight before it refills the pool
LoopTopNoRefill(q, futs, mw) ==
    IF q = <<>> /\ DOMAIN futs = {} THEN "returned"
    ELSE IF DOMAIN futs # {} THEN "wait"
    ELSE "dispatch"

\* mutation: `while futures` instead of `while queue or futures`
LoopTopIgnoresQueue(q, futs, mw) ==
    IF DOMAIN futs = {} THEN "returned"
    ELSE IF CanSubmit(q, futs, mw) THEN "dispatch"
    ELSE "wait"

\* where the control loop stands once a drain has been processed
LoopTop(q, futs, mw) ==
    IF q = <<>> /\ DOMAIN futs = {} THEN "returned"
    ELSE IF CanSubmit(q, futs, mw) THEN "dispatch"
    ELSE IF DOMAIN futs = {} THEN "dispatch"
    ELSE "wait"

\* mutation: no handler around future.result(), the exception leaves crawl
AfterResultUnhandled(ok, rest, q, futs, mw) ==
    IF ~ok THEN "raised"
    ELSE IF rest = {} THEN LoopTop(q, futs, mw) ELSE "process"

\* where the control loop stands after one iteration of `for future in done`;
\* `except Exception: ... continue` goes on exactly as a success does
AfterResult(ok, rest, q, futs, mw) ==
    IF rest = {} THEN LoopTop(q, futs, mw) ELSE "process"

IsFolderEntry(e) == e.kind = "FOLDER"

\* mutation: the child is inserted at the front of the list
AttachChildFront(ns, n, child) ==
    [Append(ns, child) EXCEPT ![n].children = <<Len(ns) + 1>> \o @]

\* mutation: the child is appended to the root, whichever node was fetched
AttachChildToRoot(ns, n, child) ==
    [Append(ns, child) EXCEPT ![1].children = Append(@, Len(ns) + 1)]

\* node.children.append(child), child being the node constructed last
AttachChild(ns, n, child) ==
    [Append(ns, child) EXCEPT ![n].children = Append(@, Len(ns) + 1)]

\* mutation: the identity is not recorded as visited
EnqueueUnrecorded(st, c, normalized) ==
    [st EXCEPT !.queue = Append(@, c),
               !.pushed = Append(@, c)]

\* mutation: queue.appendleft(child)
EnqueueFront(st, c, normalized) ==
    [st EXCEPT !.seen = @ \cup {normalized},
               !.queue = <<c>> \o @,
               !.pushed = Append(@, c)]

\* seen.add(normalized); queue.append(child)
Enqueue(st, c, normalized) ==
    [st EXCEPT !.seen = @ \cup {normalized},
               !.queue = Append(@, c),
               !.pushed = Append(@, c)]

RECURSIVE ExpandMain(_, _, _)
\* main.py: for entry in folder_entries
ExpandMain(st, n, es) ==
    IF es = <<>> THEN st
    ELSE LET e == Head(es)
             normalized == normalize_url(e.url)
             child == CatalogNode(e.name, e.url, "FOLDER",
                                  st.nodes[n].depth + 1)
             c == Len(st.nodes) + 1
         IN  IF AlreadySeen(st.seen, normalized)
             THEN ExpandMain(st, n, Tail(es))
             ELSE ExpandMain(
                    Enqueue([st EXCEPT !.nodes = AttachChild(@, n, child)],
                            c, normalized),
                    n, Tail(es))

\* mutation: only the first entry of the page is looked at
HasFileFirst(entries) == entries # <<>> /\ entries[1].kind = "FILE"

\* any(entry.kind == "FILE" for entry in entries)
HasFile(entries) == \E i \in 1..Len(entries) : entries[i].kind = "FILE"

\* main.py: the body of `for future in done` after a successful result()
ProcessMain(st, n, entries) ==
    ExpandMain([st EXCEPT !.nodes[n].has_file_children = HasFile(entries)],
               n, SelectSeq(entries, IsFolderEntry))

RECURSIVE ExpandFull(_, _, _)
\* mutation: every unvisited entry is pushed, FILE entries included
ExpandFullAnyKind(st, n, es) ==
    IF es = <<>> THEN st
    ELSE LET e == Head(es)
             normalized == normalize_url(e.url)
             child == CatalogNode(e.name, e.url, e.kind, 0)
             c == Len(st.nodes) + 1
             st1 == [st EXCEPT !.nodes = AttachChild(@, n, child)]
         IN  IF ~AlreadySeen(st.seen, normalized)
             THEN ExpandFull(Enqueue(st1, c, normalized), n, Tail(es))
             ELSE ExpandFull(st1, n, Tail(es))

\* catalog_to_json.py: for name, url, kind in entries
ExpandFull(st, n, es) ==
    IF es = <<>> THEN st
    ELSE LET e == Head(es)
             normalized == normalize_url(e.url)
             child == CatalogNode(e.name, e.url, e.kind, 0)
             c == Len(st.nodes) + 1
             st1 == [st EXCEPT !.nodes = AttachChild(@, n, child)]
         IN  IF e.kind = "FOLDER" /\ ~AlreadySeen(st.seen, normalized)
             THEN ExpandFull(Enqueue(st1, c, normalized), n, Tail(es))
             ELSE ExpandFull(st1, n, Tail(es))

ProcessEntries(v, st, n, entries) ==
    IF v = "main" THEN ProcessMain(st, n, entries)
    ELSE ExpandFull(st, n, entries)

RECURSIVE CatalogSize(_)
\* number of entries over the pages the catalog has answered with
CatalogSize(cat) ==
    IF DOMAIN cat = {} THEN 0
    ELSE LET u == CHOOSE x \in DOMAIN cat : TRUE
         IN  Len(cat[u].entries) + CatalogSize(Without(cat, u))

\* ---------------------------------------------------------------------
\* crawl
\* ---------------------------------------------------------------------
\* what the remote site may answer a fetch of url with: what it answered
\* before, or anything the size of the catalog still allows
Answers(url) ==
    IF url \in DOMAIN catalog THEN {catalog[url]}
    ELSE LET room == MaxTotalEntries - CatalogSize(catalog)
         IN  {o \in Outcomes : Len(o.entries) <= room}

NoUrl == Url("-", <<>>)

\* ---------------------------------------------------------------------
\* The other crawler run alongside: same site, same max_workers, the same
\* fetches completing in the same order with the same outcomes.  It is a
\* record of that crawler's own frontier, visited set, futures map and
\* tree, stepped by the same operators; pc "diverged" marks a step the
\* other crawler's control loop could not have taken.
\* ---------------------------------------------------------------------
NoTwin ==
    [variant |-> "none", nodes |-> <<>>, queue |-> <<>>, seen |-> {},
     futures |-> EmptyMap, pushed |-> <<>>, submitted |-> <<>>,
     pc |-> "none"]

OtherVariant(v) == IF v = "main" THEN "full" ELSE "main"

\* node = queue.popleft(); future = executor.submit(...) of the other crawler
TwinSubmit(tw, mw) ==
    IF tw.variant = "none" THEN tw
    ELSE IF tw.pc = "dispatch" /\ CanSubmit(tw.queue, tw.futures, mw)
    THEN LET node == Head(tw.queue)
             future == Len(tw.submitted) + 1
             q == Tail(tw.queue)
             futs == tw.futures @@ (future :> node)
         IN  [tw EXCEPT !.queue = q,
                        !.futures = futs,
                        !.submitted = Append(@, node),
                        !.pc = IF CanSubmit(q, futs, mw)
                               THEN "dispatch" ELSE "wait"]
    ELSE [tw EXCEPT !.pc = "diverged"]

\* wait() of the other crawler returns the same completed futures
TwinWait(tw, finished) ==
    IF tw.variant = "none" THEN tw
    ELSE IF tw.pc = "wait" /\ finished \subseteq DOMAIN tw.futures
    THEN [tw EXCEPT !.pc = "process"]
    ELSE [tw EXCEPT !.pc = "diverged"]

\* one iteration of `for future in done` of the other crawler
TwinProcess(tw, future, outcome, rest, mw) ==
    IF tw.variant = "none" THEN tw
    ELSE IF tw.pc = "process" /\ future \in DOMAIN tw.futures
    THEN LET st == [nodes |-> tw.nodes, seen |-> tw.seen,
                    queue |-> tw.queue, pushed |-> tw.pushed]
             st1 == IF outcome.ok
                    THEN ProcessEntries(tw.variant, st, tw.futures[future],
                                        outcome.entries)
                    ELSE st
             futs == Without(tw.futures, future)
         IN  [tw EXCEPT !.nodes = st1.nodes,
                        !.seen = st1.seen,
                        !.queue = st1.queue,
                        !.pushed = st1.pushed,
                        !.futures = futs,
                        !.pc = AfterResult(outcome.ok, rest, st1.queue,
                                           futs, mw)]
    ELSE [tw EXCEPT !.pc = "diverged"]

InitCrawl ==
    /\ variant \in {"main", "full"}
    /\ max_workers \in 1..MaxWorkersBound
    /\ \E root_url \in RootUrls :
          /\ nodes = <<CatalogNode("Root", root_url, "FOLDER", 0)>>
          /\ seen = {normalize_url(root_url)}
    /\ queue = <<1>>
    /\ futures = EmptyMap
    /\ results = EmptyMap
    /\ done = {}
    /\ pc = "dispatch"
    /\ submitted = <<>>
    /\ pushed = <<1>>
    /\ catalog = EmptyMap

Init ==
    /\ InitCrawl
    /\ url_in = NoUrl
    /\ url_out = NoUrl
    /\ twin = NoTwin

\* node = queue.popleft(); future = executor.submit(...); futures[future] = node
Submit ==
    /\ pc = "dispatch"
    /\ CanSubmit(queue, futures, max_workers)
    /\ LET node == Head(queue)
           future == Len(submitted) + 1
       IN  /\ queue' = Tail(queue)
           /\ futures' = futures @@ (future :> node)
           /\ submitted' = Append(submitted, node)
           /\ pc' = IF CanSubmit(queue', futures', max_workers)
                    THEN "dispatch" ELSE "wait"
    /\ twin' = TwinSubmit(twin, max_workers)
    /\ UNCHANGED <<variant, max_workers, nodes, seen, results, done, pushed,
                   catalog, url_in, url_out>>

\* a worker thread finishes _fetch_entries(node.url) with a page or an
\* exception; an address fetched again answers as it did before
FetchDone(future, outcome) ==
    /\ future \in DOMAIN futures
    /\ future \notin DOMAIN results
    /\ outcome \in Answers(nodes[futures[future]].url)
    /\ catalog' = catalog @@ (nodes[futures[future]].url :> outcome)
    /\ results' = results @@ (future :> outcome)
    /\ UNCHANGED <<variant, max_workers, nodes, queue, seen, futures, done,
                   pc, submitted, pushed, url_in, url_out, twin>>

\* done, _ = wait(futures.keys(), return_when=FIRST_COMPLETED)
Wait ==
    /\ pc = "wait"
    /\ LET finished == {f \in DOMAIN futures : f \in DOMAIN results}
       IN  /\ finished # {}
           /\ done' = finished
    /\ pc' = "process"
    /\ twin' = TwinWait(twin, done')
    /\ UNCHANGED <<variant, max_workers, nodes, queue, seen, futures, results,
                   submitted, pushed, catalog, url_in, url_out>>

\* one iteration of `for future in done`
Process(future) ==
    /\ pc = "process"
    /\ future \in done
    /\ LET node == futures[future]
           st == [nodes |-> nodes, seen |-> seen, queue |-> queue,
                  pushed |-> pushed]
           st1 == IF results[future].ok
                  THEN ProcessEntries(variant, st, node,
                                      results[future].entries)
                  ELSE st
       IN  /\ Len(st1.nodes) <= MaxNodes
           /\ nodes' = st1.nodes
           /\ seen' = st1.seen
           /\ queue' = st1.queue
           /\ pushed' = st1.pushed
    /\ futures' = Without(futures, future)
    /\ done' = done \ {future}
    /\ pc' = AfterResult(results[future].ok, done', queue', futures',
                         max_workers)
    /\ twin' = TwinProcess(twin, future, results[future], done',
                            max_workers)
    /\ UNCHANGED <<variant, max_workers, results, submitted, catalog,
                   url_in, url_out>>

Next ==
    \/ Submit
    \/ \E f \in DOMAIN futures :
          \E o \in Answers(nodes[futures[f]].url) : FetchDone(f, o)
    \/ Wait
    \/ \E f \in done : Process(f)

Spec == Init /\ [][Next]_vars

\* CatalogCrawler with FullCatalogCrawler run alongside
PairInit ==
    /\ InitCrawl
    /\ variant = "main"
    /\ url_in = NoUrl
    /\ url_out = NoUrl
    /\ twin = [variant |-> OtherVariant(variant), nodes |-> nodes,
               queue |-> queue, seen |-> seen, futures |-> futures,
               pushed |-> pushed, submitted |-> submitted, pc |-> pc]

PairSpec == PairInit /\ [][Next]_vars

\* ---------------------------------------------------------------------
\* normalize_url called on its own, on any address, and again on its result
\* ---------------------------------------------------------------------
Queries == UNION { [1..n -> QueryChars] : n \in 0..MaxQueryLen }

NormInit ==
    /\ variant = "main"
    /\ max_workers = 1
    /\ nodes = <<>>
    /\ queue = <<>>
    /\ seen = {}
    /\ futures = EmptyMap
    /\ results = EmptyMap
    /\ done = {}
    /\ pc = "normalize"
    /\ submitted = <<>>
    /\ pushed = <<>>
    /\ catalog = EmptyMap
    /\ url_in \in {Url("R", q) : q \in Queries}
    /\ url_out = NoUrl
    /\ twin = NoTwin

crawlVars == <<variant, max_workers, nodes, queue, seen, futures, results,
               done, pc, submitted, pushed, catalog>>

\* url_out = normalize_url(url_in)
Normalize ==
    /\ pc = "normalize"
    /\ url_out = NoUrl
    /\ url_out' = normalize_url(url_in)
    /\ UNCHANGED <<crawlVars, url_in, twin>>

\* the result is fed back: url_out = normalize_url(url_out)
NormalizeAgain ==
    /\ pc = "normalize"
    /\ url_out # NoUrl
    /\ url_in # url_out
    /\ url_in' = url_out
    /\ url_out' = normalize_url(url_out)
    /\ UNCHANGED <<crawlVars, twin>>

NormNext == Normalize \/ NormalizeAgain

NormSpec == NormInit /\ [][NormNext]_vars

\* No fetch runs forever: a running fetch ends with the answer of the site
\* or, at the latest, with the exception requests.get(..., timeout=20)
\* raises.  Fairness of FetchEnds rules out only the runs in which a fetch
\* stays running for good; it does not choose how a fetch ends.
FetchEnds ==
    \E f \in (DOMAIN futures) \ (DOMAIN results) :
        LET url == nodes[futures[f]].url
            outcome == IF url \in DOMAIN catalog THEN catalog[url]
                       ELSE Failure
        IN  /\ results' = results @@ (f :> outcome)
            /\ catalog' = catalog @@ (url :> outcome)
            /\ UNCHANGED <<variant, max_workers, nodes, queue, seen, futures,
                           done, pc, submitted, pushed, url_in, url_out,
                           twin>>

\* the thread pool ends every submitted fetch and the control thread keeps
\* running
LiveSpec ==
    /\ Spec
    /\ WF_vars(Submit)
    /\ WF_vars(Wait)
    /\ WF_vars(\E f \in done : Process(f))
    /\ WF_vars(FetchEnds)

\* ---------------------------------------------------------------------
\* crawl over a site whose pages are fixed before the crawl starts
\* ---------------------------------------------------------------------
FolderEntry(name) == Entry(name, Url(name, <<>>), "FOLDER")

FileEntry(name) == Entry(name, Url(name, <<>>), "FILE")

RootUrl == Url("R", LimitQuery)

\* two folders of the root both list folder D
DiamondSite ==
    (RootUrl :> Success(<<FolderEntry("A"), FolderEntry("B")>>))
    @@ (Url("A", <<>>) :> Success(<<FolderEntry("D")>>))
    @@ (Url("B", <<>>) :> Success(<<FolderEntry("D"), FileEntry("F")>>))
    @@ (Url("D", <<>>) :> Success(<<>>))

\* the same site with the second folder out of reach, and a page no
\* page links to
BrokenDiamondSite ==
    (RootUrl :> Success(<<FolderEntry("A"), FolderEntry("B")>>))
    @@ (Url("A", <<>>) :> Success(<<FolderEntry("D")>>))
    @@ (Url("B", <<>>) :> Failure)
    @@ (Url("D", <<>>) :> Success(<<>>))
    @@ (Url("G", <<>>) :> Success(<<FolderEntry("E")>>))

\* one branch two levels deeper than the other
DeepSite ==
    (RootUrl :> Success(<<FolderEntry("A"), FolderEntry("B")>>))
    @@ (Url("A", <<>>) :> Success(<<FolderEntry("D")>>))
    @@ (Url("D", <<>>) :> Success(<<FolderEntry("E")>>))
    @@ (Url("B", <<>>) :> Success(<<FolderEntry("G")>>))
    @@ (Url("E", <<>>) :> Success(<<>>))
    @@ (Url("G", <<>>) :> Failure)

Sites == {DiamondSite, BrokenDiamondSite, DeepSite}

SiteInit ==
    /\ variant \in {"main", "full"}
    /\ max_workers \in 1..MaxWorkersBound
    /\ nodes = <<CatalogNode("Root", RootUrl, "FOLDER", 0)>>
    /\ seen = {normalize_url(RootUrl)}
    /\ queue = <<1>>
    /\ futures = EmptyMap
    /\ results = EmptyMap
    /\ done = {}
    /\ pc = "dispatch"
    /\ submitted = <<>>
    /\ pushed = <<1>>
    /\ catalog \in Sites
    /\ url_in = NoUrl
    /\ url_out = NoUrl
    /\ twin = NoTwin

SiteSpec == SiteInit /\ [][Next]_vars

\* ---------------------------------------------------------------------
\* Properties
\* ---------------------------------------------------------------------
InFlight == Cardinality(DOMAIN futures)

\* the control loop is never stuck: until crawl returns some step is enabled
NeverStuck == pc # "returned" => ENABLED Next

\* C1: the number of outstanding fetches (entries of the futures map)
\* never exceeds max_workers, whatever the length of the frontier queue.
BoundedConcurrency == InFlight <= max_workers

\* C1 witness: every slot is taken while nodes still wait in the frontier
SlotsFullWithBacklog ==
    /\ pc = "wait"
    /\ queue # <<>>
    /\ InFlight = max_workers

\* C2: under fair scheduling crawl eventually returns, with the frontier
\* and the futures map both empty.
Termination ==
    <>(pc = "returned" /\ queue = <<>> /\ DOMAIN futures = {})

\* C2 witness: crawl has returned after walking a catalog with a cycle
\* back to the root's identity
ReturnedAfterCycle ==
    /\ pc = "returned"
    /\ \E u \in DOMAIN catalog :
          /\ catalog[u].ok
          /\ \E i \in 1..Len(catalog[u].entries) :
                /\ catalog[u].entries[i].kind = "FOLDER"
                /\ normalize_url(catalog[u].entries[i].url)
                      = normalize_url(nodes[1].url)


Range(seq) == {seq[i] : i \in 1..Len(seq)}

NoRepeat(seq) == \A i, j \in 1..Len(seq) : i # j => seq[i] # seq[j]

Identity(n) == normalize_url(nodes[n].url)

FolderNodes == {n \in 1..Len(nodes) : nodes[n].kind = "FOLDER"}

\* futures whose completion the control loop has processed
ProcessedFutures == (DOMAIN results) \ (DOMAIN futures)

\* (name, url, kind) of the children of node n, in list order
ChildEntries(n) ==
    [i \in 1..Len(nodes[n].children) |->
        Entry(nodes[nodes[n].children[i]].name,
              nodes[nodes[n].children[i]].url,
              nodes[nodes[n].children[i]].kind)]

\* C3: in the returned tree, of two distinct FOLDER nodes (root included)
\* with the same normalized identity at most one has children.
DedupInvariant ==
    pc = "returned" =>
        \A m, n \in FolderNodes :
            (m # n /\ Identity(m) = Identity(n)) =>
                (nodes[m].children = <<>> \/ nodes[n].children = <<>>)

\* C3 witness: the returned tree holds two FOLDER nodes of one identity,
\* the first discoverer expanded and the later occurrence left bare
TwinOneExpanded ==
    /\ pc = "returned"
    /\ \E m, n \in FolderNodes :
          /\ m # n
          /\ Identity(m) = Identity(n)
          /\ nodes[m].children # <<>>
          /\ nodes[n].children = <<>>

FailedNodes == {submitted[f] : f \in {g \in DOMAIN results : ~results[g].ok}}

\* C4: a failed fetch never leaves crawl: the node keeps empty children and
\* a false flag, the rest of the drain is processed, everything enqueued is
\* still dispatched and processed, and handling the failure changes nothing
\* but the futures map.
FailureResilience ==
    /\ [](/\ pc \in {"dispatch", "wait", "process", "returned"}
          /\ \A n \in FailedNodes :
                nodes[n].children = <<>> /\ ~nodes[n].has_file_children
          /\ pc # "process" => done = {}
          /\ pc = "returned" =>
                /\ Range(pushed) = Range(submitted)
                /\ DOMAIN results = 1..Len(submitted)
                /\ DOMAIN futures = {})
    /\ [][\A f \in done :
            (f \notin done' /\ ~results[f].ok) =>
                /\ nodes' = nodes
                /\ queue' = queue
                /\ seen' = seen
                /\ done' = done \ {f}
                /\ futures' = Without(futures, f)]_vars

\* C4 witness: crawl returned although a fetch failed, and a node fetched
\* after the failure was expanded
FailureSurvived ==
    /\ pc = "returned"
    /\ \E f, g \in DOMAIN results :
          /\ ~results[f].ok
          /\ f < g
          /\ results[g].ok
          /\ nodes[submitted[g]].children # <<>>

\* the children of node n are, one for one and in order, the page's entries
ChildrenMirrorPage(f) == ChildEntries(submitted[f]) = results[f].entries

\* C5 as stated: in both crawlers the children of a successfully fetched node
\* are its page's entries, one child per entry, in parser order.
OrderPreservationBoth ==
    \A f \in ProcessedFutures : results[f].ok => ChildrenMirrorPage(f)

RECURSIVE NewFolders(_, _)
\* the FOLDER entries of a page whose identity is neither in the set s nor
\* carried by an earlier entry of the page
NewFolders(s, es) ==
    IF es = <<>> THEN <<>>
    ELSE IF Head(es).kind = "FOLDER" /\ normalize_url(Head(es).url) \notin s
         THEN <<Head(es)>>
              \o NewFolders(s \cup {normalize_url(Head(es).url)}, Tail(es))
         ELSE NewFolders(s, Tail(es))

\* identities of the nodes constructed before the children of node n were
PriorIdentities(n) ==
    LET last == IF nodes[n].children = <<>> THEN Len(nodes)
                ELSE nodes[n].children[1] - 1
    IN  {Identity(m) : m \in 1..last}

\* C5 amended: FullCatalogCrawler mirrors the page entry for entry;
\* CatalogCrawler keeps, in parser order, one child for each FOLDER entry
\* whose identity no earlier node carried, and none for the other entries.
OrderPreservation ==
    \A f \in ProcessedFutures :
        results[f].ok =>
            IF variant = "full" THEN ChildrenMirrorPage(f)
            ELSE ChildEntries(submitted[f])
                    = NewFolders(PriorIdentities(submitted[f]),
                                 results[f].entries)

\* C5 witness: a processed page of two different entries, both attached
TwoChildrenInOrder ==
    \E f \in ProcessedFutures :
        /\ results[f].ok
        /\ Len(results[f].entries) = 2
        /\ results[f].entries[1] # results[f].entries[2]
        /\ Len(nodes[submitted[f]].children) = 2

\* a FOLDER entry of a processed page is shown by a child of the page's node
EntryAttached(f, i) ==
    \E k \in 1..Len(nodes[submitted[f]].children) :
        LET c == nodes[nodes[submitted[f]].children[k]]
        IN  c.url = results[f].entries[i].url
            /\ c.name = results[f].entries[i].name

\* a node that was never pushed is never fetched and never gets children
NeverExpanded(n) ==
    n \notin Range(pushed) =>
        n \notin Range(submitted) /\ nodes[n].children = <<>>

\* a FOLDER node that repeats the identity of an earlier FOLDER node (the
\* entry was already visited when it was read) is never pushed
OccurrenceNotPushed(n) ==
    (\E m \in FolderNodes : m < n /\ Identity(m) = Identity(n)) =>
        n \notin Range(pushed)

\* C6 as stated: every FOLDER entry of a processed page, already visited or
\* not, has its child node in the parent's children; the child of an already
\* visited entry is not pushed, and a node that was not pushed is never
\* fetched or expanded.
VisitedStillAttachedBoth ==
    /\ \A f \in ProcessedFutures :
          \A i \in 1..Len(results[f].entries) :
              results[f].entries[i].kind = "FOLDER" => EntryAttached(f, i)
    /\ \A n \in 1..Len(nodes) : NeverExpanded(n)
    /\ \A n \in FolderNodes : OccurrenceNotPushed(n)

\* C6 amended: the occurrence is attached by FullCatalogCrawler only;
\* CatalogCrawler attaches exactly the nodes it pushes.  In both, the
\* occurrence is not pushed and a node that was not pushed is never fetched
\* or expanded.
VisitedStillAttached ==
    /\ variant = "full" =>
          \A f \in ProcessedFutures :
              \A i \in 1..Len(results[f].entries) :
                  results[f].entries[i].kind = "FOLDER" => EntryAttached(f, i)
    /\ variant = "main" => Range(pushed) = 1..Len(nodes)
    /\ \A n \in 1..Len(nodes) : NeverExpanded(n)
    /\ \A n \in FolderNodes : OccurrenceNotPushed(n)

\* C6 witness: the spec's scenario under FullCatalogCrawler,
\* R -> {A -> {C}, F} with C cycling back to the root's identity
CycleScenarioFull ==
    /\ variant = "full"
    /\ pc = "returned"
    /\ Len(nodes) = 4
    /\ nodes[1].children = <<2, 3>>
    /\ nodes[2].kind = "FOLDER" /\ nodes[2].children = <<4>>
    /\ nodes[3].kind = "FILE"
    /\ nodes[4].kind = "FOLDER" /\ nodes[4].children = <<>>
    /\ Identity(4) = Identity(1)
    /\ submitted = <<1, 2>>

\* C7 as stated: no two distinct FOLDER nodes of the tree have the same
\* normalized identity.
UniqueFolderIdentityBoth ==
    \A m, n \in FolderNodes : m # n => Identity(m) # Identity(n)

\* C7 amended: CatalogCrawler never holds two nodes of one identity;
\* FullCatalogCrawler may, but never two that were both pushed.
UniqueFolderIdentity ==
    \A m, n \in FolderNodes :
        (m # n /\ Identity(m) = Identity(n)) =>
            /\ variant = "full"
            /\ ~(m \in Range(pushed) /\ n \in Range(pushed))

FolderEntryCount(page) == Len(SelectSeq(page, IsFolderEntry))

\* C7 witness: CatalogCrawler processed a page naming two FOLDER entries
\* and built a single node for them
MainSkippedRepeat ==
    /\ variant = "main"
    /\ \E f \in ProcessedFutures :
          /\ results[f].ok
          /\ FolderEntryCount(results[f].entries) = 2
          /\ Len(nodes[submitted[f]].children) = 1

\* C8: normalizing a normalized address changes nothing.
Idempotent ==
    url_out # NoUrl => normalize_url(url_out) = url_out

\* C8 witness: a call that dropped a pagination parameter and kept a
\* repeated key and a blank value
NormalizedKeepsRest ==
    /\ url_in = Url("R", <<"limit", "&", "a", "&", "a">>)
    /\ url_out = Url("R", <<"a", "=", "&", "a", "=">>)

\* C9: no node is pushed twice or dispatched twice, and no two fetches are
\* submitted for nodes of the same normalized identity.
FetchedOncePerIdentity ==
    /\ NoRepeat(pushed)
    /\ NoRepeat(submitted)
    /\ \A i, j \in 1..Len(submitted) :
          i # j => Identity(submitted[i]) # Identity(submitted[j])

\* number of FOLDER entries over all pages answered so far
RECURSIVE FolderEntriesServed(_)
FolderEntriesServed(k) ==
    IF k = 0 THEN 0
    ELSE (IF k \in DOMAIN results
          THEN FolderEntryCount(results[k].entries) ELSE 0)
         + FolderEntriesServed(k - 1)

\* C9 witness: crawl returned after three fetches although the pages named
\* more FOLDER entries than that
RepeatsNotRefetched ==
    /\ pc = "returned"
    /\ Len(submitted) = 3
    /\ FolderEntriesServed(Len(submitted)) > 2

\* C10: seen is exactly the set of identities of the nodes ever enqueued,
\* it holds the root's identity before the first dispatch, it covers every
\* node in the frontier, in flight or fetched, and it never loses an element.
SeenIsEnqueued ==
    /\ [](/\ seen = {Identity(n) : n \in Range(pushed)}
          /\ Identity(1) \in seen
          /\ \A n \in Range(queue) \cup Range(submitted) : Identity(n) \in seen
          /\ \A f \in DOMAIN futures : Identity(futures[f]) \in seen)
    /\ [][seen \subseteq seen'
          /\ \A n \in Range(pushed') \ Range(pushed) :
                Identity(n)' \in seen' \ seen]_vars

\* C10 witness: two identities were added along with their nodes, next to
\* the root's identity, which is not the address the root is fetched with
SeenGrewWithPushes ==
    /\ Len(pushed) = 3
    /\ Cardinality(seen) = 3
    /\ Url("R", <<>>) \in seen
    /\ nodes[1].url \notin seen

\* ---------------------------------------------------------------------
\* Second group of properties
\* ---------------------------------------------------------------------
\* number of nodes pushed on the frontier whose identity is id
PushCount(id) ==
    Cardinality({k \in 1..Len(pushed) : Identity(pushed[k]) = id})

\* the FOLDER identities the page brought by future f names
FolderIdentities(f) ==
    {normalize_url(results[f].entries[i].url) :
        i \in {j \in 1..Len(results[f].entries) :
                  results[f].entries[j].kind = "FOLDER"}}

\* every identity a processed page names as a FOLDER has been pushed once
OnePushPerIdentity ==
    \A f \in ProcessedFutures :
        results[f].ok => \A id \in FolderIdentities(f) : PushCount(id) = 1

\* a step in which a worker delivers its result writes nothing the control
\* loop owns
WorkerWritesNothing ==
    results' # results =>
        /\ seen' = seen
        /\ queue' = queue
        /\ pushed' = pushed
        /\ nodes' = nodes
        /\ futures' = futures

\* C11: when the pages of several fetches drained together name the same
\* unvisited FOLDER identity, exactly one node with that identity is pushed,
\* whichever of them is processed first; a worker finishing a fetch changes
\* neither the visited set nor the frontier.
SingleWriterDedup == []OnePushPerIdentity /\ [][WorkerWritesNothing]_vars

\* C11 witness: futures 2 and 3 were in flight together and were processed
\* in one drain (nothing was dispatched in between); both pages name the
\* same identity, and one node carrying it waits in the frontier
SharedChildInOneDrain ==
    /\ max_workers >= 2
    /\ Len(submitted) = 3
    /\ {2, 3} \subseteq ProcessedFutures
    /\ results[2].ok /\ results[3].ok
    /\ \E id \in FolderIdentities(2) \cap FolderIdentities(3) :
          /\ PushCount(id) = 1
          /\ \E k \in 1..Len(queue) : Identity(queue[k]) = id

\* fetches in flight whose worker has delivered a result
Completed == {f \in DOMAIN futures : f \in DOMAIN results}

\* suspended in wait(), the loop has no free slot unless the frontier is
\* empty, and it has something to wait for
FullOrDrained ==
    pc = "wait" =>
        /\ InFlight >= 1
        /\ queue = <<>> \/ InFlight = max_workers

\* one completed fetch is enough for wait() to return
ResumesOnFirst == (pc = "wait" /\ Completed # {}) => ENABLED Wait

\* wait() returns completed fetches only, and at least one
WaitReturnsCompleted ==
    (pc = "wait" /\ pc' # "wait") =>
        /\ pc' = "process"
        /\ done' # {}
        /\ done' \subseteq Completed

\* C12: whenever the control loop is suspended in wait(FIRST_COMPLETED) the
\* frontier is empty or exactly max_workers fetches are in flight; the loop
\* resumes as soon as one outstanding fetch has completed, with the
\* completed fetches as its drain.
WorkConserving ==
    [](FullOrDrained /\ ResumesOnFirst) /\ [][WaitReturnsCompleted]_vars

\* C12 witness: wait() has returned one of two outstanding fetches while the
\* other is still running, the frontier being empty when it was entered
ResumedWithOneRunning ==
    /\ pc = "process"
    /\ InFlight = 2
    /\ Cardinality(done) = 1
    /\ done = Completed
    /\ queue = <<>>

\* once processed, a completion is never in flight or drained again
ProcessedStaysProcessed ==
    \A f \in ProcessedFutures :
        f \notin DOMAIN futures' /\ f \notin done' /\ f \in DOMAIN results'

\* crawl has returned: nothing queued, nothing in flight, and every node
\* ever pushed (one per visited identity) was submitted once and processed
ReturnedComplete ==
    pc = "returned" =>
        /\ queue = <<>>
        /\ DOMAIN futures = {}
        /\ done = {}
        /\ \A k \in 1..Len(pushed) :
              Cardinality({f \in ProcessedFutures :
                              submitted[f] = pushed[k]}) = 1
        /\ \A id \in seen :
              Cardinality({i \in 1..Len(submitted) :
                              Identity(submitted[i]) = id}) = 1
        /\ DOMAIN results = 1..Len(submitted)

\* C13: crawl returns only with the frontier and the in-flight map both
\* empty, and by then every node ever enqueued (every identity of the
\* visited set, the root's included) has had its fetch submitted exactly
\* once and its completion processed exactly once.
ReturnsWhenAllProcessed ==
    []ReturnedComplete /\ [][ProcessedStaysProcessed]_vars

\* C13 witness: crawl has returned after two drains at least, one of them
\* with a failed fetch
ReturnedAfterSeveralDrains ==
    /\ pc = "returned"
    /\ Len(submitted) >= 3
    /\ \E f \in ProcessedFutures : ~results[f].ok
    /\ Cardinality(seen) = Len(submitted)

\* the successfully fetched and processed page of node n lists a FILE
FilePageProcessed(n) ==
    \E f \in ProcessedFutures :
        /\ submitted[f] = n
        /\ results[f].ok
        /\ "FILE" \in {results[f].entries[i].kind :
                          i \in 1..Len(results[f].entries)}

FlagMatchesPage ==
    variant = "main" =>
        \A n \in 1..Len(nodes) :
            nodes[n].has_file_children <=> FilePageProcessed(n)

\* the flag changes from false to true only, in the step that processes the
\* node's own completion
FlagSetInOwnStep ==
    \A n \in 1..Len(nodes) :
        nodes'[n].has_file_children # nodes[n].has_file_children =>
            /\ ~nodes[n].has_file_children
            /\ \E f \in done : f \notin done' /\ futures[f] = n

\* C14: in CatalogCrawler.crawl a node's has_file_children is true exactly
\* when its fetch succeeded, was processed, and its page lists at least one
\* FILE entry; it is false for failed and never-fetched nodes, and is not
\* written again after the node's completion has been processed.
LeafFlag == []FlagMatchesPage /\ [][FlagSetInOwnStep]_vars

\* C14 witness: one node flagged by a page mixing FOLDER and FILE entries,
\* another node processed from a non-empty page without FILE entries
FlaggedAndUnflagged ==
    /\ variant = "main"
    /\ \E f, g \in ProcessedFutures :
          /\ nodes[submitted[f]].has_file_children
          /\ \E i \in 1..Len(results[f].entries) :
                results[f].entries[i].kind = "FOLDER"
          /\ results[g].ok
          /\ results[g].entries # <<>>
          /\ ~nodes[submitted[g]].has_file_children

\* the tree fields of node n
TreeFields(ns, n) == <<ns[n].children, ns[n].has_file_children>>

\* a step writes the children list and the flag of no node but the one
\* whose completion it processes
OwnStepOnly ==
    \A n \in 1..Len(nodes) :
        TreeFields(nodes', n) # TreeFields(nodes, n) =>
            \E f \in done : f \notin done' /\ futures[f] = n

\* the tree fields of a node whose completion was processed stay as they are
FrozenAfterProcessing ==
    \A f \in ProcessedFutures :
        TreeFields(nodes', submitted[f]) = TreeFields(nodes, submitted[f])

\* C15: the children list and the leaf flag of a node are written only in
\* the step that processes that node's own fetch completion; that step
\* leaves every other node's children as they were, and afterwards the
\* node's children are never appended to, reordered or truncated.
TreeFrame == [][OwnStepOnly /\ FrozenAfterProcessing]_vars

\* C15 witness: two nodes were given children in two different steps
TwoParentsFilled ==
    \E f, g \in ProcessedFutures :
        /\ f # g
        /\ nodes[submitted[f]].children # <<>>
        /\ nodes[submitted[g]].children # <<>>

\* dispatches follow the order of pushes; the frontier is what is left
DispatchFifo ==
    /\ Len(submitted) <= Len(pushed)
    /\ submitted = SubSeq(pushed, 1, Len(submitted))
    /\ queue = SubSeq(pushed, Len(submitted) + 1, Len(pushed))

\* the i-th fetch submitted is of a child of a node whose earlier fetch
\* succeeded and was processed
ParentProcessedFirst ==
    \A i \in 2..Len(submitted) :
        \E f \in ProcessedFutures :
            /\ f < i
            /\ results[f].ok
            /\ submitted[i] \in Range(nodes[submitted[f]].children)

\* C16: nodes are dispatched in exactly the order in which they were pushed
\* on the frontier, and the fetch of a node other than the root is never
\* submitted before its parent's fetch has succeeded and been processed.
DispatchOrder == DispatchFifo /\ ParentProcessedFirst

\* C16 witness: a grandchild of the root has been dispatched while a later
\* push still waits in the frontier
GrandchildDispatched ==
    /\ Len(submitted) >= 3
    /\ queue # <<>>
    /\ \E i \in 2..Len(submitted) :
          submitted[i] \notin Range(nodes[1].children)

IsPagination(key) == key = <<"limit">> \/ key = <<"limitstart">>

RECURSIVE OtherPairs(_)
\* the pairs whose key is neither limit nor limitstart, in their order
OtherPairs(pairs) ==
    IF pairs = <<>> THEN <<>>
    ELSE (IF IsPagination(Head(pairs)[1]) THEN <<>> ELSE <<Head(pairs)>>)
         \o OtherPairs(Tail(pairs))

\* C17: normalize_url removes every query parameter whose key is limit or
\* limitstart and nothing else: the parameters of the result are the other
\* key/value pairs of the argument (blank values included) in their order,
\* and scheme, host and path are unchanged.  The result is the encoding of
\* exactly these pairs, so two addresses have the same identity exactly
\* when they agree on everything but their limit/limitstart parameters.
RemovesOnlyPagination ==
    (pc = "normalize" /\ url_out # NoUrl) =>
        /\ url_out.base = url_in.base
        /\ ParseQsl(url_out.query) = OtherPairs(ParseQsl(url_in.query))
        /\ url_out.query = Urlencode(OtherPairs(ParseQsl(url_in.query)))

\* C17 witness: an address with a limit and a limitstart parameter and a
\* blank-valued third one has been normalized to the third one alone
BothPaginationKeysRemoved ==
    /\ pc = "normalize"
    /\ url_out # NoUrl
    /\ LET pairs == ParseQsl(url_in.query)
       IN  /\ \E i \in 1..Len(pairs) : pairs[i][1] = <<"limit">>
           /\ \E i \in 1..Len(pairs) : pairs[i][1] = <<"limitstart">>
           /\ \E i \in 1..Len(pairs) :
                 ~IsPagination(pairs[i][1]) /\ pairs[i][2] = <<>>
    /\ Len(ParseQsl(url_out.query)) = 1

Depth(n) == nodes[n].depth

\* main.py: the root has depth 0 and a child one more than its parent
DepthIsDistance ==
    /\ Depth(1) = 0
    /\ \A n \in 1..Len(nodes) :
          \A i \in 1..Len(nodes[n].children) :
              Depth(nodes[n].children[i]) = Depth(n) + 1

\* the depth never decreases along the sequence of dispatches
DepthMonotone ==
    \A i, j \in 1..Len(submitted) :
        i < j => Depth(submitted[i]) <= Depth(submitted[j])

\* C18: with max_workers = 1 the nodes of CatalogCrawler.crawl are
\* dispatched in non-decreasing depth (strict level order), depth being 0
\* for the root and the parent's depth plus one for a child.  With more
\* workers there are runs that dispatch a deeper node before a shallower
\* one: C18's witness is such a run.
LevelOrderSingleWorker ==
    variant = "main" =>
        /\ DepthIsDistance
        /\ max_workers = 1 => DepthMonotone

\* C18 witness: with more than one worker a node of depth 3 was dispatched
\* before a node of depth 2
DeeperDispatchedFirst ==
    /\ variant = "main"
    /\ max_workers > 1
    /\ \E i, j \in 1..Len(submitted) :
          /\ i < j
          /\ Depth(submitted[i]) = 3
          /\ Depth(submitted[j]) = 2

\* (name, address) of the nodes of seq, in order
NameUrl(ns, seq) ==
    [i \in 1..Len(seq) |-> <<ns[seq[i]].name, ns[seq[i]].url>>]

\* the two crawlers stand at the same point with the same frontier, the
\* same fetches in flight, the same visited set and the same dispatches
Lockstep ==
    /\ twin.pc = pc
    /\ twin.seen = seen
    /\ NameUrl(twin.nodes, twin.queue) = NameUrl(nodes, queue)
    /\ DOMAIN twin.futures = DOMAIN futures
    /\ \A f \in DOMAIN futures :
          NameUrl(twin.nodes, <<twin.futures[f]>>)
             = NameUrl(nodes, <<futures[f]>>)
    /\ NameUrl(twin.nodes, twin.submitted) = NameUrl(nodes, submitted)
    /\ NameUrl(twin.nodes, twin.pushed) = NameUrl(nodes, pushed)

TwinIsFolder(c) == twin.nodes[c].kind = "FOLDER"

TwinIsPushed(c) == c \in Range(twin.pushed)

TwinHasFileChild(u) ==
    \E i \in 1..Len(twin.nodes[u].children) :
        twin.nodes[twin.nodes[u].children[i]].kind = "FILE"

\* the children of every main.py node are the FOLDER children of the
\* FullCatalogCrawler node pushed at the same rank, FILE children being
\* recorded in the flag
TreeIsFullWithoutFiles ==
    \A k \in 1..Len(pushed) :
        /\ NameUrl(nodes, nodes[pushed[k]].children)
              = NameUrl(twin.nodes,
                        SelectSeq(twin.nodes[twin.pushed[k]].children,
                                  TwinIsFolder))
        /\ nodes[pushed[k]].has_file_children
              <=> TwinHasFileChild(twin.pushed[k])

\* rank of node n in the sequence of pushes
PushRank(seq, n) == CHOOSE k \in 1..Len(seq) : seq[k] = n

PushRanks(seq, children) ==
    [i \in 1..Len(children) |-> PushRank(seq, children[i])]

\* the children of every main.py node are those children of the
\* FullCatalogCrawler node pushed at the same rank that were themselves
\* pushed, rank for rank; the nodes FullCatalogCrawler never pushed (FILE
\* nodes, occurrences of visited folders) are leaves
TreeIsFullPushedOnly ==
    /\ \A k \in 1..Len(pushed) :
          /\ PushRanks(pushed, nodes[pushed[k]].children)
                = PushRanks(twin.pushed,
                            SelectSeq(twin.nodes[twin.pushed[k]].children,
                                      TwinIsPushed))
          /\ nodes[pushed[k]].has_file_children
                <=> TwinHasFileChild(twin.pushed[k])
    /\ \A c \in 1..Len(twin.nodes) :
          ~TwinIsPushed(c) => twin.nodes[c].children = <<>>
    /\ \A n \in 1..Len(nodes) : n \in Range(pushed)

\* C19 as stated: in lockstep, and the main.py tree is the
\* FullCatalogCrawler tree with its FILE nodes removed.
SameScheduleFilesRemoved ==
    twin.variant = "full" => (Lockstep /\ TreeIsFullWithoutFiles)

\* C19: run on the same catalog with the same max_workers and the same
\* order of completions and failures, the two crawlers keep the same
\* frontier, in-flight and visited state at every step and submit the same
\* addresses in the same order; the main.py tree is the FullCatalogCrawler
\* tree without the nodes FullCatalogCrawler attached but never pushed:
\* its FILE nodes (recorded as has_file_children) and the occurrences of
\* folders that were already visited.
SameScheduleUnpushedRemoved ==
    twin.variant = "full" => (Lockstep /\ TreeIsFullPushedOnly)

\* C19 witness: both crawlers have returned; FullCatalogCrawler's tree
\* holds a FILE node and an occurrence of a visited folder, main.py's
\* tree neither
PairReturnedTreesDiffer ==
    /\ twin.variant = "full"
    /\ pc = "returned"
    /\ twin.pc = "returned"
    /\ Len(nodes) >= 2
    /\ \E c \in 1..Len(twin.nodes) : twin.nodes[c].kind = "FILE"
    /\ \E c \in 1..Len(twin.nodes) : TwinIsFolder(c) /\ ~TwinIsPushed(c)

\* the FOLDER identities listed by the page the site serves for identity id
LinkedFrom(id) ==
    UNION { {normalize_url(catalog[u].entries[i].url) :
                i \in {j \in 1..Len(catalog[u].entries) :
                          catalog[u].entries[j].kind = "FOLDER"}} :
            u \in {v \in DOMAIN catalog :
                      normalize_url(v) = id /\ catalog[v].ok} }

RECURSIVE ReachableFrom(_)
\* least set of identities that holds ids and is closed under LinkedFrom
ReachableFrom(ids) ==
    LET more == ids \cup UNION {LinkedFrom(id) : id \in ids}
    IN  IF more = ids THEN ids ELSE ReachableFrom(more)

FetchedIdentities == {Identity(submitted[i]) : i \in 1..Len(submitted)}

\* C20: when crawl returns, the identities fetched are exactly those
\* reachable from the root through the FOLDER entries of the pages the
\* site serves successfully: a set fixed by the site alone, so it is the
\* same for every max_workers and every order of completions.
FetchedIsReachable ==
    pc = "returned" =>
        FetchedIdentities = ReachableFrom({Identity(1)})

\* C20 witness: crawl has returned from a site on which a folder is listed
\* by two fetched pages, so that its parent depends on the schedule, and
\* on which one fetch failed
ReturnedFromSharedFolder ==
    /\ pc = "returned"
    /\ \E f \in ProcessedFutures : ~results[f].ok
    /\ \E f, g \in ProcessedFutures :
          /\ f # g
          /\ results[f].ok /\ results[g].ok
          /\ \E id \in FolderIdentities(f) \cap FolderIdentities(g) :
                id # Identity(1)
====
